---- MODULE Spec2Model ----
(***************************************************************************)
(* State-machine model of the FV-1 assembly language server                *)
(* (server/src/server.ts): capability negotiation, the per-resource        *)
(* settings cache, document synchronisation, the diagnostic engine and     *)
(* the completion service.                                                 *)
(*                                                                         *)
(* Execution model: Node's event loop.  Every notification or request      *)
(* handler runs to completion; the continuation of an `await` is a         *)
(* microtask that runs once the awaited promise is settled, and the        *)
(* microtask queue is drained before the next message is handled.          *)
(***************************************************************************)
EXTENDS Integers, Sequences, FiniteSets, TLC

(***************************************************************************)
(* Text: a document's content is a sequence of one-character strings.      *)
(***************************************************************************)
Upper == {"A", "B", "C", "D", "E", "F", "G", "H", "I", "J", "K", "L", "M",
          "N", "O", "P", "Q", "R", "S", "T", "U", "V", "W", "X", "Y", "Z"}

Lower == {"a", "b", "c", "d", "e", "f", "g", "h", "i", "j", "k", "l", "m",
          "n", "o", "p", "q", "r", "s", "t", "u", "v", "w", "x", "y", "z"}

Digit == {"0", "1", "2", "3", "4", "5", "6", "7", "8", "9"}

\* The regular expression class \w.
WordChar == Upper \cup Lower \cup Digit \cup {"_"}

\* The character at 0-based offset i of text, "" outside the text.
CharAt(text, i) == IF i >= 0 /\ i < Len(text) THEN text[i + 1] ELSE ""

\* The regular expression assertion \b at 0-based offset i.
WordBoundary(text, i) ==
    (CharAt(text, i - 1) \in WordChar) # (CharAt(text, i) \in WordChar)

\* The length of the run of [A-Z] characters that starts at offset i.
RECURSIVE UpperRun(_, _)
UpperRun(text, i) ==
    IF CharAt(text, i) \in Upper THEN 1 + UpperRun(text, i + 1) ELSE 0

\* /\b[A-Z]{2,}\b/ tried at offset i: the length matched, 0 when there is no
\* match at i.  The quantifier is greedy and backtracks down to two characters.
MatchAt(text, i) ==
    LET run == UpperRun(text, i)
        ok  == {k \in 2..run : WordBoundary(text, i + k)}
    IN  IF WordBoundary(text, i) /\ ok # {}
        THEN CHOOSE k \in ok : \A j \in ok : j <= k
        ELSE 0

\* pattern.exec(text) with the g flag: the leftmost match at or after
\* lastIndex, as [index, length]; length 0 stands for null.
RECURSIVE PatternExec(_, _)
PatternExec(text, lastIndex) ==
    IF lastIndex > Len(text) THEN [index |-> 0, length |-> 0]
    ELSE IF MatchAt(text, lastIndex) > 0
         THEN [index |-> lastIndex, length |-> MatchAt(text, lastIndex)]
         ELSE PatternExec(text, lastIndex + 1)

\* The matched substring m[0].
Substring(text, index, length) == SubSeq(text, index + 1, index + length)

\* A sequence of one-character strings as one string.
RECURSIVE JoinStr(_)
JoinStr(chars) ==
    IF chars = <<>> THEN "" ELSE Head(chars) \o JoinStr(Tail(chars))

\* TextDocument's line table: the offsets at which lines start.  A line ends
\* at "\n", "\r\n" or "\r".
RECURSIVE LineOffsetsFrom(_, _)
LineOffsetsFrom(text, i) ==
    IF i >= Len(text) THEN <<>>
    ELSE IF CharAt(text, i) = "\r" /\ CharAt(text, i + 1) = "\n"
         THEN <<i + 2>> \o LineOffsetsFrom(text, i + 2)
         ELSE IF CharAt(text, i) \in {"\r", "\n"}
              THEN <<i + 1>> \o LineOffsetsFrom(text, i + 1)
              ELSE LineOffsetsFrom(text, i + 1)

LineOffsets(text) == <<0>> \o LineOffsetsFrom(text, 0)

\* textDocument.positionAt(offset): the last line that starts at or before
\* the offset, and the distance from that line's start.
positionAt(text, offset) ==
    LET offs == LineOffsets(text)
        o    == IF offset > Len(text) THEN Len(text) ELSE offset
        ln   == CHOOSE l \in 1..Len(offs) :
                    /\ offs[l] <= o
                    /\ \A k \in 1..Len(offs) : offs[k] <= o => k <= l
    IN  [line |-> ln - 1, character |-> o - offs[ln]]


(***************************************************************************)
(* Bounds of the model and the sample inputs.                              *)
(***************************************************************************)
\* Validation passes that may be started in one behaviour.  Each pass issues
\* at most one configuration fetch, so this bounds the fetches as well.
MaxPasses == 3

\* Validation passes that may be started in one behaviour that also serves
\* completion requests.
MaxPassesWithRequests == 2

\* Validation passes that may be started in one behaviour of the pipeline
\* under fair scheduling, which takes its inputs from smaller sets.
MaxPassesFair == 4

\* The maxNumberOfProblems values the editor supplies.
EditorLimits == {0, 1}

URIs == {"a.spn", "b.spn"}

NopText ==
    <<"N", "O", "P", "\n", "A", "B", "S", "A", " ",
      "B", "A", "D", "O", "P", "C", "O", "D", "E", "\n">>

MixedText ==
    <<"A", "B", " ", "C", "d", " ", "E", "F", "_", "G", " ", "X", "\r", "\n",
      "H", "I", "\r", "j", "K">>

Texts == {NopText, MixedText}

\* The contents the editor gives each document, on open and on change.
Contents == [u \in URIs |-> IF u = "a.spn" THEN Texts ELSE {NopText}]

\* Cursor positions of completion requests.
Positions == {[line |-> 0, character |-> 0], [line |-> 0, character |-> 9]}

(***************************************************************************)
(* Settings.                                                               *)
(***************************************************************************)
DefaultMaxNumberOfProblems == 1000

defaultSettings == [maxNumberOfProblems |-> DefaultMaxNumberOfProblems]

\* The settings values the editor supplies, in a fetch response or in the
\* payload of a configuration-change notification.
EditorSettings == {[maxNumberOfProblems |-> n] : n \in EditorLimits}

\* change.settings of a configuration-change notification: with or without
\* the fv1LanguageServer section.
ChangePayloads ==
    {[other |-> TRUE]} \cup {[fv1LanguageServer |-> s] : s \in EditorSettings}

\* Client capability descriptors of the initialize request.  Every section
\* and every field is optional.  FullClient is an editor that supports all
\* three capabilities; the others lack a section or a field, or hold a false
\* field.
FullClient ==
    [workspace |-> [configuration |-> TRUE, workspaceFolders |-> TRUE],
     textDocument |-> [publishDiagnostics |-> [relatedInformation |-> TRUE]]]

WorkspaceSections ==
    {[other |-> TRUE],
     [configuration |-> FALSE],
     [configuration |-> FALSE, workspaceFolders |-> TRUE],
     [workspaceFolders |-> FALSE]}

TextDocumentSections ==
    {[other |-> TRUE],
     [publishDiagnostics |-> [other |-> TRUE]],
     [publishDiagnostics |-> [relatedInformation |-> FALSE]],
     [publishDiagnostics |-> [relatedInformation |-> TRUE]]}

ClientCapabilities ==
    {FullClient, [other |-> TRUE]} \cup
    {[workspace |-> w] : w \in WorkspaceSections} \cup
    {[textDocument |-> t] : t \in TextDocumentSections} \cup
    {[workspace |-> [other |-> TRUE], textDocument |-> t] :
        t \in TextDocumentSections}

\* obj.field as JavaScript reads it in a boolean context: an absent field is
\* undefined, which is falsy.
Has(obj, field) == field \in DOMAIN obj

(***************************************************************************)
(* Maps (the settings cache) and sequences.                                *)
(***************************************************************************)
EmptyMap == [k \in {} |-> 0]

MapSet(m, key, v) ==
    [k \in DOMAIN m \cup {key} |-> IF k = key THEN v ELSE m[k]]

MapDelete(m, key) == [k \in DOMAIN m \ {key} |-> m[k]]

RECURSIVE SelectIndex(_, _, _)
\* The entries of seq whose index is not i.
SelectIndex(seq, i, k) ==
    IF k > Len(seq) THEN <<>>
    ELSE IF k = i THEN SelectIndex(seq, i, k + 1)
         ELSE <<seq[k]>> \o SelectIndex(seq, i, k + 1)

RemoveAt(seq, i) == SelectIndex(seq, i, 1)

VARIABLES
    initialized,        \* the initialize request has been handled
    hasConfigurationCapability,
    hasWorkspaceFolderCapability,
    hasDiagnosticRelatedInformationCapability,
    globalSettings,     \* the settings used without the configuration capability
    documentSettings,   \* Map: uri -> the promise of that document's settings
    outstanding,        \* Map: fetch id -> the fetch, for the fetches not answered
    documents,          \* the open documents, in order of opening
    passes,             \* validation passes suspended at their await
    published,          \* uri -> the last publishDiagnostics sent for it
    nStarted,           \* validation passes started
    nPublished,         \* publishDiagnostics notifications sent
    last                \* what the last step did

vars ==
    <<initialized, hasConfigurationCapability, hasWorkspaceFolderCapability,
      hasDiagnosticRelatedInformationCapability, globalSettings,
      documentSettings, outstanding, documents, passes, published, nStarted,
      nPublished, last>>

capabilityVars ==
    <<hasConfigurationCapability, hasWorkspaceFolderCapability,
      hasDiagnosticRelatedInformationCapability>>

(***************************************************************************)
(* Documents (the TextDocuments manager).                                  *)
(***************************************************************************)
OpenUris == {documents[i].uri : i \in 1..Len(documents)}

IndexOf(uri) == CHOOSE i \in 1..Len(documents) : documents[i].uri = uri

getText(uri) == documents[IndexOf(uri)].text

\* The text of the document uri among docs.
TextIn(docs, uri) ==
    LET i == CHOOSE k \in 1..Len(docs) : docs[k].uri = uri
    IN  docs[i].text

\* documents.all(): the uris of the open documents, in order of opening.
AllUris == [i \in 1..Len(documents) |-> documents[i].uri]

(***************************************************************************)
(* The settings cache.                                                     *)
(***************************************************************************)
\* A promise is [id, state, value]: id names the configuration fetch it
\* belongs to (the number of the validation pass that issued the fetch), or
\* is 0 for Promise.resolve(value).  The cache and the
\* suspended passes hold the promise itself, so settling a fetch settles it
\* in every place that holds it.
Pending(id) == [id |-> id, state |-> "pending", value |-> defaultSettings]

Resolved(id, value) == [id |-> id, state |-> "resolved", value |-> value]

Rejected(id) == [id |-> id, state |-> "rejected", value |-> defaultSettings]

\* An outstanding fetch is [scopeUri, evicted]; evicted records that the
\* promise of the fetch has been removed from the cache since it was issued.
Evict(fetches, uris) ==
    [id \in DOMAIN fetches |->
        IF fetches[id].scopeUri \in uris
        THEN [fetches[id] EXCEPT !.evicted = TRUE]
        ELSE fetches[id]]

\* invalidateAll without the clear.
invalidateNone(c) == c

\* documentSettings.clear() on the settings state c.
invalidateAll(c) ==
    [c EXCEPT !.documentSettings = EmptyMap,
              !.outstanding = Evict(c.outstanding, DOMAIN c.documentSettings)]

\* forget deleting only an entry whose fetch has been answered.
forgetSettled(c, uri) ==
    IF uri \in DOMAIN c.documentSettings
          /\ c.documentSettings[uri].state = "pending"
    THEN c
    ELSE [c EXCEPT !.documentSettings = MapDelete(c.documentSettings, uri),
                   !.outstanding = Evict(c.outstanding, {uri})]

\* forget without the delete.
forgetNothing(c, uri) == c

\* documentSettings.delete(uri) on the settings state c.
forget(c, uri) ==
    [c EXCEPT !.documentSettings = MapDelete(c.documentSettings, uri),
              !.outstanding = Evict(c.outstanding, {uri})]

\* getDocumentSettings without documentSettings.set: the promise of a fetch
\* is returned and not cached.
getDocumentSettingsNoStore(c, resource, id) ==
    IF ~hasConfigurationCapability
    THEN [cache |-> c, fetched |-> FALSE,
          result |-> Resolved(0, c.globalSettings)]
    ELSE IF resource \in DOMAIN c.documentSettings
         THEN [cache |-> c, fetched |-> FALSE,
               result |-> c.documentSettings[resource]]
         ELSE [cache |->
                   [c EXCEPT !.outstanding =
                       MapSet(c.outstanding, id,
                              [scopeUri |-> resource, evicted |-> FALSE])],
               fetched |-> TRUE,
               result |-> Pending(id)]

\* getDocumentSettings without the test of the configuration capability:
\* the editor is asked whatever it supports.
getDocumentSettingsUnconditional(c, resource, id) ==
    IF resource \in DOMAIN c.documentSettings
    THEN [cache |-> c, fetched |-> FALSE,
          result |-> c.documentSettings[resource]]
    ELSE [cache |->
              [globalSettings |-> c.globalSettings,
               documentSettings |->
                   MapSet(c.documentSettings, resource, Pending(id)),
               outstanding |->
                   MapSet(c.outstanding, id,
                          [scopeUri |-> resource, evicted |-> FALSE])],
          fetched |-> TRUE,
          result |-> Pending(id)]

\* getDocumentSettings asking the editor again when the cached promise has
\* been rejected.
getDocumentSettingsRetrying(c, resource, id) ==
    IF ~hasConfigurationCapability
    THEN [cache |-> c, fetched |-> FALSE,
          result |-> Resolved(0, c.globalSettings)]
    ELSE IF /\ resource \in DOMAIN c.documentSettings
            /\ c.documentSettings[resource].state # "rejected"
         THEN [cache |-> c, fetched |-> FALSE,
               result |-> c.documentSettings[resource]]
         ELSE [cache |->
                   [globalSettings |-> c.globalSettings,
                    documentSettings |->
                        MapSet(c.documentSettings, resource, Pending(id)),
                    outstanding |->
                        MapSet(c.outstanding, id,
                               [scopeUri |-> resource, evicted |-> FALSE])],
               fetched |-> TRUE,
               result |-> Pending(id)]

\* getDocumentSettings without the cache lookup: every call fetches.
getDocumentSettingsAlwaysFetch(c, resource, id) ==
    IF ~hasConfigurationCapability
    THEN [cache |-> c, fetched |-> FALSE,
          result |-> Resolved(0, c.globalSettings)]
    ELSE [cache |->
              [globalSettings |-> c.globalSettings,
               documentSettings |->
                   MapSet(c.documentSettings, resource, Pending(id)),
               outstanding |->
                   MapSet(c.outstanding, id,
                          [scopeUri |-> resource, evicted |-> FALSE])],
          fetched |-> TRUE,
          result |-> Pending(id)]

\* getDocumentSettings(resource) on the settings state c = [globalSettings,
\* documentSettings, outstanding]: the state afterwards and the promise
\* returned.  A fetch it issues is named id.
getDocumentSettings(c, resource, id) ==
    IF ~hasConfigurationCapability
    THEN [cache |-> c, fetched |-> FALSE,
          result |-> Resolved(0, c.globalSettings)]
    ELSE IF resource \in DOMAIN c.documentSettings
         THEN [cache |-> c, fetched |-> FALSE,
               result |-> c.documentSettings[resource]]
         ELSE [cache |->
                   [globalSettings |-> c.globalSettings,
                    documentSettings |->
                        MapSet(c.documentSettings, resource, Pending(id)),
                    outstanding |->
                        MapSet(c.outstanding, id,
                               [scopeUri |-> resource, evicted |-> FALSE])],
               fetched |-> TRUE,
               result |-> Pending(id)]

(***************************************************************************)
(* The diagnostic engine.                                                  *)
(***************************************************************************)
Warning == "Warning"

\* The related-information entries of a diagnostic.
relatedInformation(uri, range) ==
    <<[location |-> [uri |-> uri, range |-> range],
       message |-> "Spelling matters"],
      [location |-> [uri |-> uri, range |-> range],
       message |-> "Particularly for names"]>>

\* Diagnostic attaching the related information whatever the client supports.
DiagnosticAlwaysRelated(text, uri, m) ==
    LET range == [start |-> positionAt(text, m.index),
                  end |-> positionAt(text, m.index + m.length)]
    IN  [severity |-> Warning,
         range |-> range,
         message |-> JoinStr(Substring(text, m.index, m.length))
                     \o " is all uppercase.",
         source |-> "ex",
         relatedInformation |-> relatedInformation(uri, range)]

\* The diagnostic built for the match m of text.
Diagnostic(text, uri, m) ==
    LET range == [start |-> positionAt(text, m.index),
                  end |-> positionAt(text, m.index + m.length)]
        diagnostic ==
            [severity |-> Warning,
             range |-> range,
             message |-> JoinStr(Substring(text, m.index, m.length))
                         \o " is all uppercase.",
             source |-> "ex"]
    IN  IF hasDiagnosticRelatedInformationCapability
        THEN [f \in DOMAIN diagnostic \cup {"relatedInformation"} |->
                 IF f = "relatedInformation"
                 THEN relatedInformation(uri, range)
                 ELSE diagnostic[f]]
        ELSE diagnostic

\* LoopContinues with the limit compared by <= instead of <.
LoopContinuesOffByOne(m, problems, settings) ==
    m.length # 0 /\ problems <= settings.maxNumberOfProblems

\* The condition of the while loop, once the match m has been looked for.
LoopContinues(m, problems, settings) ==
    m.length # 0 /\ problems < settings.maxNumberOfProblems

\* ScanLoop with each diagnostic put in front of the array instead of pushed.
RECURSIVE ScanLoopPrepending(_, _, _, _, _)
ScanLoopPrepending(text, uri, settings, lastIndex, problems) ==
    LET m == PatternExec(text, lastIndex)
    IN  IF LoopContinues(m, problems, settings)
        THEN ScanLoopPrepending(text, uri, settings, m.index + m.length,
                                problems + 1)
             \o <<Diagnostic(text, uri, m)>>
        ELSE <<>>

\* The while loop of validateTextDocument, from the pattern's lastIndex with
\* `problems` diagnostics built so far: the diagnostics it still builds.
RECURSIVE ScanLoop(_, _, _, _, _)
ScanLoop(text, uri, settings, lastIndex, problems) ==
    LET m == PatternExec(text, lastIndex)
    IN  IF LoopContinues(m, problems, settings)
        THEN <<Diagnostic(text, uri, m)>>
             \o ScanLoop(text, uri, settings, m.index + m.length, problems + 1)
        ELSE <<>>

\* The diagnostics validateTextDocument computes after its await.
Diagnostics(text, uri, settings) == ScanLoop(text, uri, settings, 0, 0)

\* validateTextDocument up to its await, on h = [cache, passes, nStarted,
\* fetched, documents]: the settings promise is obtained and the pass is suspended on it.
\* The pass keeps a reference to the document object: live is TRUE while that
\* object is the open document of its uri.  While live is TRUE, text records
\* the text the document holds as the pass starts (the manager has stored or
\* updated the document before it fires the event); the pass does not read it.
validateStart(h, uri) ==
    LET got == getDocumentSettings(h.cache, uri, h.nStarted + 1)
    IN  [cache |-> got.cache,
         passes |-> Append(h.passes,
                           [n |-> h.nStarted + 1,
                            uri |-> uri,
                            awaits |-> got.result,
                            live |-> TRUE,
                            text |-> TextIn(h.documents, uri)]),
         nStarted |-> h.nStarted + 1,
         fetched |-> IF got.fetched THEN h.fetched \cup {uri} ELSE h.fetched,
         documents |-> h.documents]

\* validateAll validating the first document only.
validateAllFirstOnly(h, uris) ==
    IF uris = <<>> THEN h ELSE validateStart(h, Head(uris))

\* documents.all().forEach(validateTextDocument)
RECURSIVE validateAll(_, _)
validateAll(h, uris) ==
    IF uris = <<>> THEN h
    ELSE validateAll(validateStart(h, Head(uris)), Tail(uris))

\* The handler state of a message handler: the settings state, the passes,
\* and the documents as the manager holds them when the handler runs.
Handler(cache, docs) ==
    [cache |-> cache, passes |-> passes, nStarted |-> nStarted, fetched |-> {},
     documents |-> docs]

Cache ==
    [globalSettings |-> globalSettings,
     documentSettings |-> documentSettings,
     outstanding |-> outstanding]

\* Runnable with the passes resumed strictly in the order in which they
\* started: a pass waits for the passes suspended before it.
RunnableInOrder(i) ==
    \A j \in 1..i : passes[j].awaits.state # "pending"

\* The continuation of pass i runs once the promise it awaits is settled.
Runnable(i) == passes[i].awaits.state # "pending"

\* A continuation is in the microtask queue.
MicrotaskPending == \E i \in 1..Len(passes) : Runnable(i)

\* The server is between two handlers, ready for the next message.
Idle == initialized /\ ~MicrotaskPending

(***************************************************************************)
(* The completion service.                                                 *)
(***************************************************************************)
Keyword == "Keyword"

\* The array literal of the completion handler.
completionItems ==
  <<
    [label |-> "EQU",
     documentation |-> "Equate a value to a label reference",
     detail |-> "Usage:\n\t\t\t\t\tequ krt 0.86 ;equate the label krt to the value of 0.86\n\t\t\t\t\tequ\tsgn\t-1\t;equate the label sgn to the value of -1\n\t\t\t\t\tequ\ta\treg0\t;equate the label a to represent register 0",
     kind |-> Keyword],
    [label |-> "MEM",
     documentation |-> "Define the length of delay memory elements and associate an address label.",
     detail |-> "Usage: mem del1 1000 ;assign 1000 delay memory locations to the label del1",
     kind |-> Keyword],
    [label |-> "RDA",
     documentation |-> "Read delay memory times coefficient and add to accumulator.",
     detail |-> "Usage: rda memaddress,coefficient",
     kind |-> Keyword],
    [label |-> "RMPA",
     documentation |-> "Read delay memory from addr_ptr location, multiply by coefficient and add to accumulator",
     detail |-> "Usage: rmpa coefficient",
     kind |-> Keyword],
    [label |-> "WRA",
     documentation |-> "Write ACC to delay memory location and multiply ACC by coefficient",
     detail |-> "Usage: wra memaddrs,coefficient",
     kind |-> Keyword],
    [label |-> "WRAP",
     documentation |-> "Write delay memory, multiply written value by the coefficient, add to LR register and load ACC with result.",
     detail |-> "Usage: wrap memaddrs,coefficient",
     kind |-> Keyword],
    [label |-> "RDAX",
     documentation |-> "Read register value, multiply by coefficient and add to ACC.",
     detail |-> "Usage: rdax reg0,0.2",
     kind |-> Keyword],
    [label |-> "RDFX",
     documentation |-> "Subtract register contents from ACC, multiply by coefficient, add register contents and load to ACC.",
     detail |-> "Usage: rdfx reg0,0.23",
     kind |-> Keyword],
    [label |-> "WRAX",
     documentation |-> "Write ACC to register, multiply ACC by coefficient",
     detail |-> "Usage: wrax reg1,0",
     kind |-> Keyword],
    [label |-> "WRHX",
     documentation |-> "Write ACC to register, multiply ACC by coefficient, add PACC and load result to ACC",
     detail |-> "Usage: wrhx reg2,-0.5",
     kind |-> Keyword],
    [label |-> "WRLX",
     documentation |-> "Write ACC to the register, subtract ACC from PACC, multiply result by the coefficient, then add PACC and load result to ACC.",
     detail |-> "Usage: wrlx reg6,kshlf",
     kind |-> Keyword],
    [label |-> "MAXX",
     documentation |-> "Load the maximum of the absolute value of the register times the coefficient or the absolute value of ACC to ACC.",
     detail |-> "Usage: maxx reg2,0.5",
     kind |-> Keyword],
    [label |-> "ABSA",
     documentation |-> "Changes the ACC contents to absolute value of ACC",
     kind |-> Keyword],
    [label |-> "MULX",
     documentation |-> "Load the accumulator with the product of ACC and a register.",
     detail |-> "Usage: mulx reg0",
     kind |-> Keyword],
    [label |-> "LOG",
     documentation |-> "Take the LOG base 2 of the absolute value of the accumulator, divide result by 16, multiply the result by the coefficient, add a constant and load to ACC.",
     detail |-> "Usage: log 1.5,-0.3",
     kind |-> Keyword],
    [label |-> "EXP",
     documentation |-> "Raise 2 to the power of the accumulator*16, multiply by coefficient and add to a constant, loading the result to ACC.",
     detail |-> "Usage: exp 0.8,0",
     kind |-> Keyword],
    [label |-> "SOF",
     documentation |-> "Multiply ACC by the coefficient value and add a constant (Scale and Offset)",
     detail |-> "Usage: SOF 1.5,-0.3",
     kind |-> Keyword],
    [label |-> "AND",
     documentation |-> "And ACC with immediate mask",
     detail |-> "Usage: and %011111000000000000000000",
     kind |-> Keyword],
    [label |-> "OR",
     documentation |-> "Or ACC with immediate mask",
     detail |-> "Usage: or %011111000000000000000000",
     kind |-> Keyword],
    [label |-> "XOR",
     documentation |-> "Xor ACC with immediate mask",
     detail |-> "Usage: xor %011111000000000000000000",
     kind |-> Keyword],
    [label |-> "SKP",
     documentation |-> "Skip N instructions based on condition",
     detail |-> "Usage: skp zro,2 ;skip ahead 2 instructions if accumulator is zero.",
     kind |-> Keyword],
    [label |-> "WLDS",
     documentation |-> "Load SIN/COS generator with initial conditions",
     detail |-> "Usage: wlds sin0,freq,amp ;load the SIN/COS0 generator with freq and amp variables",
     kind |-> Keyword],
    [label |-> "WLDR",
     documentation |-> "Load RAMP generator with initial conditions",
     detail |-> "Usage: wldr rmp0,freq,amp ;load the RAMP0 generator with freq and amp variables",
     kind |-> Keyword],
    [label |-> "JAM",
     documentation |-> "When executed, will force a selected RAMP generator to it's starting condition",
     detail |-> "Usage: jam 0",
     kind |-> Keyword],
    [label |-> "CHO",
     documentation |-> "General operation for reading delay memory from an LFO output as both a memory pointer and an interpolation coefficient.",
     detail |-> "Usage: cho rda,sin0, SIN | REG ,del1+100 ;read del1+100+(sine of SIN/COS0 value) also, register LFO values.",
     kind |-> Keyword],
    [label |-> "NOP",
     documentation |-> "No operation",
     kind |-> Keyword],
    [label |-> "NOT",
     documentation |-> "Change sign of ACC value",
     kind |-> Keyword],
    [label |-> "CLR",
     documentation |-> "Clear ACC",
     kind |-> Keyword]
  >>

\* onCompletion offering the items only at the start of a line.
onCompletionAtLineStart(textDocumentPosition) ==
    IF textDocumentPosition.position.character = 0
    THEN completionItems
    ELSE <<>>

\* The completion handler: the items it returns for a document position.
onCompletion(textDocumentPosition) == completionItems

\* onCompletionResolve with a plain else for the second key: every item whose
\* key is not 1 gets the details of key 2.
onCompletionResolveElse(item) ==
    LET with(detail, documentation) ==
            [f \in DOMAIN item \cup {"detail", "documentation"} |->
                IF f = "detail" THEN detail
                ELSE IF f = "documentation" THEN documentation
                ELSE item[f]]
    IN  IF Has(item, "data") /\ item.data = 1
        THEN with("TypeScript details", "TypeScript documentation")
        ELSE with("JavaScript details", "JavaScript documentation")

\* onCompletionResolve adding to the detail an item already has.
onCompletionResolveAppending(item) ==
    LET old == IF Has(item, "detail") THEN item.detail \o " " ELSE ""
        with(detail, documentation) ==
            [f \in DOMAIN item \cup {"detail", "documentation"} |->
                IF f = "detail" THEN old \o detail
                ELSE IF f = "documentation" THEN documentation
                ELSE item[f]]
    IN  IF Has(item, "data") /\ item.data = 1
        THEN with("TypeScript details", "TypeScript documentation")
        ELSE IF Has(item, "data") /\ item.data = 2
             THEN with("JavaScript details", "JavaScript documentation")
             ELSE item

\* The completion-resolve handler: the item it returns.
onCompletionResolve(item) ==
    LET with(detail, documentation) ==
            [f \in DOMAIN item \cup {"detail", "documentation"} |->
                IF f = "detail" THEN detail
                ELSE IF f = "documentation" THEN documentation
                ELSE item[f]]
    IN  IF Has(item, "data") /\ item.data = 1
        THEN with("TypeScript details", "TypeScript documentation")
        ELSE IF Has(item, "data") /\ item.data = 2
             THEN with("JavaScript details", "JavaScript documentation")
             ELSE item

\* Items an editor sends to be resolved: items of the completion list, and
\* items that carry a resolution key.
ResolveItems ==
    LET list == onCompletion([uri |-> "a.spn",
                              position |-> [line |-> 0, character |-> 0]])
    IN  {list[1], list[28]} \cup
        {[label |-> "TypeScript", kind |-> "Text", data |-> 1],
         [label |-> "JavaScript", kind |-> "Text", data |-> 2,
          detail |-> "details", documentation |-> "documentation"],
         [label |-> "Other", kind |-> "Text", data |-> 3]}

(***************************************************************************)
(* The state machine.                                                      *)
(***************************************************************************)
Init ==
    /\ initialized = FALSE
    /\ hasConfigurationCapability = FALSE
    /\ hasWorkspaceFolderCapability = FALSE
    /\ hasDiagnosticRelatedInformationCapability = FALSE
    /\ globalSettings = defaultSettings
    /\ documentSettings = EmptyMap
    /\ outstanding = EmptyMap
    /\ documents = <<>>
    /\ passes = <<>>
    /\ published = EmptyMap
    /\ nStarted = 0
    /\ nPublished = 0
    /\ last = [op |-> "start"]

\* The effect of a handler that ends in the handler state h.
Commit(h) ==
    /\ globalSettings' = h.cache.globalSettings
    /\ documentSettings' = h.cache.documentSettings
    /\ outstanding' = h.cache.outstanding
    /\ passes' = h.passes
    /\ nStarted' = h.nStarted

\* onInitialize taking a capability to be supported when its field is present,
\* whatever the field holds.
OnInitializeFieldPresent(capabilities) ==
    /\ ~initialized
    /\ initialized' = TRUE
    /\ hasConfigurationCapability' =
           (/\ Has(capabilities, "workspace")
            /\ Has(capabilities.workspace, "configuration"))
    /\ hasWorkspaceFolderCapability' =
           (/\ Has(capabilities, "workspace")
            /\ Has(capabilities.workspace, "workspaceFolders"))
    /\ hasDiagnosticRelatedInformationCapability' =
           (/\ Has(capabilities, "textDocument")
            /\ Has(capabilities.textDocument, "publishDiagnostics")
            /\ Has(capabilities.textDocument.publishDiagnostics,
                   "relatedInformation"))
    /\ last' = [op |-> "initialize", capabilities |-> capabilities]
    /\ UNCHANGED <<globalSettings, documentSettings, outstanding, documents,
                   passes, published, nStarted, nPublished>>

\* connection.onInitialize
OnInitialize(capabilities) ==
    /\ ~initialized
    /\ initialized' = TRUE
    /\ hasConfigurationCapability' =
           (/\ Has(capabilities, "workspace")
            /\ Has(capabilities.workspace, "configuration")
            /\ capabilities.workspace.configuration)
    /\ hasWorkspaceFolderCapability' =
           (/\ Has(capabilities, "workspace")
            /\ Has(capabilities.workspace, "workspaceFolders")
            /\ capabilities.workspace.workspaceFolders)
    /\ hasDiagnosticRelatedInformationCapability' =
           (/\ Has(capabilities, "textDocument")
            /\ Has(capabilities.textDocument, "publishDiagnostics")
            /\ Has(capabilities.textDocument.publishDiagnostics,
                   "relatedInformation")
            /\ capabilities.textDocument.publishDiagnostics.relatedInformation)
    /\ last' = [op |-> "initialize", capabilities |-> capabilities]
    /\ UNCHANGED <<globalSettings, documentSettings, outstanding, documents,
                   passes, published, nStarted, nPublished>>

\* A document is opened: the manager stores it and fires onDidChangeContent.
DidOpen(uri, text) ==
    /\ Idle
    /\ uri \notin OpenUris
    /\ documents' = Append(documents, [uri |-> uri, text |-> text])
    /\ LET h == validateStart(Handler(Cache, documents'), uri)
       IN  /\ Commit(h)
           /\ last' = [op |-> "open", uri |-> uri, fetched |-> h.fetched]
    /\ UNCHANGED <<initialized, capabilityVars, published, nPublished>>

\* A document is changed: the manager updates the document object in place
\* and fires onDidChangeContent.
DidChange(uri, text) ==
    /\ Idle
    /\ uri \in OpenUris
    /\ documents' = [documents EXCEPT ![IndexOf(uri)].text = text]
    /\ LET h == validateStart(Handler(Cache, documents'), uri)
       IN  /\ Commit(h)
           /\ last' = [op |-> "change", uri |-> uri, fetched |-> h.fetched]
    /\ UNCHANGED <<initialized, capabilityVars, published, nPublished>>

\* documents.onDidClose: the manager drops the document, the handler drops
\* its settings.  Passes suspended on the document keep the dropped object.
DidClose(uri) ==
    /\ Idle
    /\ uri \in OpenUris
    /\ documents' = RemoveAt(documents, IndexOf(uri))
    /\ documentSettings' = forget(Cache, uri).documentSettings
    /\ outstanding' = forget(Cache, uri).outstanding
    /\ passes' = [i \in 1..Len(passes) |->
                     IF passes[i].uri = uri /\ passes[i].live
                     THEN [passes[i] EXCEPT !.live = FALSE,
                                            !.text = getText(uri)]
                     ELSE passes[i]]
    /\ last' = [op |-> "close", uri |-> uri]
    /\ UNCHANGED <<initialized, capabilityVars, globalSettings, published,
                   nStarted, nPublished>>

\* The settings state after the first statement of onDidChangeConfiguration.
ConfigurationChanged(settings) ==
    IF hasConfigurationCapability
    THEN invalidateAll(Cache)
    ELSE [Cache EXCEPT !.globalSettings =
                           IF Has(settings, "fv1LanguageServer")
                           THEN settings.fv1LanguageServer
                           ELSE defaultSettings]

\* The part of change.settings that onDidChangeConfiguration reads: nothing
\* when the configuration capability is present.
SettingsRead(settings) ==
    IF hasConfigurationCapability THEN [other |-> TRUE] ELSE settings

\* connection.onDidChangeConfiguration
DidChangeConfiguration(settings) ==
    /\ Idle
    /\ LET h == validateAll(Handler(ConfigurationChanged(settings), documents),
                           AllUris)
       IN  /\ Commit(h)
           /\ last' = [op |-> "configuration",
                       settings |-> SettingsRead(settings),
                       fetched |-> h.fetched]
    /\ UNCHANGED <<initialized, capabilityVars, documents, published,
                   nPublished>>

\* The promise of fetch id becomes `promise` wherever it is held.
Settle(id, promise) ==
    /\ outstanding' = MapDelete(outstanding, id)
    /\ documentSettings' =
           [r \in DOMAIN documentSettings |->
               IF documentSettings[r].id = id THEN promise
               ELSE documentSettings[r]]
    /\ passes' = [i \in 1..Len(passes) |->
                     IF passes[i].awaits.id = id
                     THEN [passes[i] EXCEPT !.awaits = promise]
                     ELSE passes[i]]

\* The editor answers the configuration fetch id with settings.
FetchResolve(id, settings) ==
    /\ Idle
    /\ id \in DOMAIN outstanding
    /\ Settle(id, Resolved(id, settings))
    /\ last' = [op |-> "resolved", id |-> id]
    /\ UNCHANGED <<initialized, capabilityVars, globalSettings, documents,
                   published, nStarted, nPublished>>

\* The editor answers the configuration fetch id with an error.
FetchReject(id) ==
    /\ Idle
    /\ id \in DOMAIN outstanding
    /\ Settle(id, Rejected(id))
    /\ last' = [op |-> "rejected", id |-> id]
    /\ UNCHANGED <<initialized, capabilityVars, globalSettings, documents,
                   published, nStarted, nPublished>>

\* FirstRunnable taking the continuation queued last.
LastRunnable ==
    CHOOSE i \in 1..Len(passes) :
        Runnable(i) /\ \A j \in 1..Len(passes) : Runnable(j) => j <= i

\* The first continuation of the microtask queue.
FirstRunnable ==
    CHOOSE i \in 1..Len(passes) :
        Runnable(i) /\ \A j \in 1..Len(passes) : Runnable(j) => i <= j

\* PassText with the text read before the await, as the pass starts.
PassTextAtStart(pass) == pass.text

\* The text a resumed pass reads from its document object.
PassText(pass) == IF pass.live THEN getText(pass.uri) ELSE pass.text

\* sendDiagnostics adding the diagnostics to the set published before.
sendDiagnosticsMerging(pass, settings, text, diagnostics) ==
    LET merged == IF pass.uri \in DOMAIN published
                  THEN published[pass.uri].diagnostics \o diagnostics
                  ELSE diagnostics
    IN  /\ published' = MapSet(published, pass.uri,
                               [diagnostics |-> merged, text |-> text,
                                settings |-> settings])
        /\ nPublished' = nPublished + 1
        /\ last' = [op |-> "publish", uri |-> pass.uri, n |-> pass.n,
                    id |-> pass.awaits.id, startText |-> pass.text,
                    live |-> pass.live, text |-> text, settings |-> settings,
                    diagnostics |-> merged,
                    repeat |-> /\ pass.uri \in DOMAIN published
                               /\ published[pass.uri].text = text
                               /\ published[pass.uri].settings = settings]

\* connection.sendDiagnostics.  With the diagnostics, published keeps the
\* text and the settings they were computed from; last.repeat records that
\* the previous publish for the uri was computed from the same two.
sendDiagnostics(pass, settings, text, diagnostics) ==
    /\ published' = MapSet(published, pass.uri,
                           [diagnostics |-> diagnostics, text |-> text,
                            settings |-> settings])
    /\ nPublished' = nPublished + 1
    /\ last' = [op |-> "publish", uri |-> pass.uri, n |-> pass.n,
                id |-> pass.awaits.id, startText |-> pass.text,
                live |-> pass.live, text |-> text, settings |-> settings,
                diagnostics |-> diagnostics,
                repeat |-> /\ pass.uri \in DOMAIN published
                           /\ published[pass.uri].text = text
                           /\ published[pass.uri].settings = settings]

\* ResumePass with the rejection caught and the default settings used.
ResumePassSwallowingRejection(pass) ==
    LET settings == IF pass.awaits.state = "rejected"
                    THEN defaultSettings
                    ELSE pass.awaits.value
    IN  sendDiagnostics(pass, settings, PassText(pass),
                        Diagnostics(PassText(pass), pass.uri, settings))

\* validateTextDocument from its await on, for the pass whose promise is
\* settled.  A rejection is thrown out of the pass; otherwise the text is
\* scanned and the diagnostics are sent.
ResumePass(pass) ==
    IF pass.awaits.state = "rejected"
    THEN /\ last' = [op |-> "failed", uri |-> pass.uri, n |-> pass.n,
                     id |-> pass.awaits.id]
         /\ UNCHANGED <<published, nPublished>>
    ELSE sendDiagnostics(pass, pass.awaits.value, PassText(pass),
             Diagnostics(PassText(pass), pass.uri, pass.awaits.value))

\* The event loop takes the first continuation off the microtask queue.
RunMicrotask ==
    /\ initialized
    /\ MicrotaskPending
    /\ passes' = RemoveAt(passes, FirstRunnable)

\* The microtask queue runs its first continuation.
ValidateResume ==
    /\ RunMicrotask
    /\ ResumePass(passes[FirstRunnable])
    /\ UNCHANGED <<initialized, capabilityVars, globalSettings,
                   documentSettings, outstanding, documents, nStarted>>

\* connection.onCompletion
OnCompletion(uri, position) ==
    /\ Idle
    /\ LET params == [uri |-> uri, position |-> position]
       IN  last' = [op |-> "completion", params |-> params,
                    result |-> onCompletion(params)]
    /\ UNCHANGED <<initialized, capabilityVars, globalSettings,
                   documentSettings, outstanding, documents, passes,
                   published, nStarted, nPublished>>

\* connection.onCompletionResolve
OnCompletionResolve(item) ==
    /\ Idle
    /\ last' = [op |-> "completionResolve", item |-> item,
                result |-> onCompletionResolve(item),
                again |-> (last.op = "completionResolve" /\ item = last.result)]
    /\ UNCHANGED <<initialized, capabilityVars, globalSettings,
                   documentSettings, outstanding, documents, passes,
                   published, nStarted, nPublished>>

\* connection.onDidChangeWatchedFiles: logged only.
OnDidChangeWatchedFiles ==
    /\ Idle
    /\ last' = [op |-> "watchedFiles"]
    /\ UNCHANGED <<initialized, capabilityVars, globalSettings,
                   documentSettings, outstanding, documents, passes,
                   published, nStarted, nPublished>>

\* The items an editor may ask to resolve next: those of ResolveItems, and
\* the item the last resolve returned.
NextResolveItems ==
    ResolveItems \cup
    (IF last.op = "completionResolve" THEN {last.result} ELSE {})

\* A handler that starts n passes starts none beyond the limit-th of the
\* behaviour.
Room(limit, n) == nStarted + n <= limit

\* The handlers of the document pipeline.
PipelineNext ==
    \/ \E capabilities \in ClientCapabilities : OnInitialize(capabilities)
    \/ \E uri \in URIs : \E text \in Contents[uri] :
           Room(MaxPasses, 1) /\ DidOpen(uri, text)
    \/ \E uri \in URIs : \E text \in Contents[uri] :
           Room(MaxPasses, 1) /\ DidChange(uri, text)
    \/ \E uri \in URIs : DidClose(uri)
    \/ \E settings \in ChangePayloads :
           /\ Room(MaxPasses, Len(documents))
           /\ DidChangeConfiguration(settings)
    \/ \E id \in 1..MaxPasses, settings \in EditorSettings :
           FetchResolve(id, settings)
    \/ \E id \in 1..MaxPasses : FetchReject(id)
    \/ ValidateResume

\* The handlers of the completion service and of the notifications that are
\* only logged.
CompletionNext ==
    \/ \E uri \in URIs, position \in Positions : OnCompletion(uri, position)
    \/ \E item \in NextResolveItems : OnCompletionResolve(item)
    \/ OnDidChangeWatchedFiles

Next == PipelineNext \/ CompletionNext

\* The whole server.
Spec == Init /\ [][Next]_vars

\* The document pipeline: the server without the completion requests and the
\* logged notifications, which read and write none of its state.
PipelineSpec == Init /\ [][PipelineNext]_vars

\* The step stays within the pass bound of CompletionSpec.
Serving == nStarted' <= MaxPassesWithRequests

\* The whole server, serving completion requests between a few document
\* events.
ServingNext ==
    \/ \E capabilities \in ClientCapabilities : OnInitialize(capabilities)
    \/ \E uri \in URIs : \E text \in Contents[uri] :
           DidOpen(uri, text) /\ Serving
    \/ \E uri \in URIs : \E text \in Contents[uri] :
           DidChange(uri, text) /\ Serving
    \/ \E uri \in URIs : DidClose(uri)
    \/ \E settings \in ChangePayloads :
           DidChangeConfiguration(settings) /\ Serving
    \/ \E id \in 1..MaxPasses, settings \in EditorSettings :
           FetchResolve(id, settings)
    \/ \E id \in 1..MaxPasses : FetchReject(id)
    \/ ValidateResume
    \/ CompletionNext

CompletionSpec == Init /\ [][ServingNext]_vars

\* The document whose configuration fetches the editor may leave unanswered
\* for ever, and the document whose fetches it answers.
StalledUri == "a.spn"

AnsweredUri == "b.spn"

\* The editor answers a configuration fetch of the document uri.
AnswerFetchOf(uri) ==
    \E id \in DOMAIN outstanding :
        /\ outstanding[id].scopeUri = uri
        /\ \E settings \in EditorSettings : FetchResolve(id, settings)

\* The handlers of the document pipeline, for an editor with all the
\* capabilities or with none, that sends one text, one settings value and
\* configuration changes without a section for the server.
FairNext ==
    \/ \E capabilities \in {FullClient, [other |-> TRUE]} :
           OnInitialize(capabilities)
    \/ \E uri \in URIs : Room(MaxPassesFair, 1) /\ DidOpen(uri, NopText)
    \/ \E uri \in URIs : Room(MaxPassesFair, 1) /\ DidChange(uri, NopText)
    \/ \E uri \in URIs : DidClose(uri)
    \/ /\ Room(MaxPassesFair, Len(documents))
       /\ DidChangeConfiguration([other |-> TRUE])
    \/ \E id \in DOMAIN outstanding :
           FetchResolve(id, [maxNumberOfProblems |-> 1])
    \/ \E id \in DOMAIN outstanding : FetchReject(id)
    \/ ValidateResume

\* The document pipeline under the scheduling of the event loop: a
\* continuation in the microtask queue is run (the only step possible while
\* the queue holds one is ValidateResume, which is the step that takes it off
\* the queue), and the editor answers the fetches of AnsweredUri.  Nothing
\* makes the editor answer the other fetches.
FairSpec ==
    /\ Init
    /\ [][FairNext]_vars
    /\ WF_passes(RunMicrotask)
    /\ WF_vars(AnswerFetchOf(AnsweredUri))

(***************************************************************************)
(* Properties.                                                             *)
(***************************************************************************)
\* The outstanding fetches whose scope is the resource r.
OutstandingFor(r) ==
    {id \in DOMAIN outstanding : outstanding[id].scopeUri = r}

\* The passes the step started, in the state after the step.
StartedPasses ==
    {i \in 1..Len(passes') : passes'[i].n > nStarted}

\* C1: a validation pass that publishes sends at most as many diagnostics as
\* the maxNumberOfProblems of the settings it resolved.
C1_PublishedWithinLimit ==
    last.op = "publish" =>
        Len(last.diagnostics) <= last.settings.maxNumberOfProblems

\* A pass has published under limit 1 a text that holds three matches.
C1_Witness ==
    /\ last.op = "publish"
    /\ last.text = NopText
    /\ last.settings.maxNumberOfProblems = 1
    /\ Len(last.diagnostics) = 1

\* C2 as claimed: for every resource at most one configuration fetch is
\* outstanding.
C2_AtMostOneOutstandingFetch ==
    \A r \in URIs : Cardinality(OutstandingFor(r)) <= 1

\* C2 as amended: for every resource at most one outstanding fetch was issued
\* since the resource's last invalidation (invalidateAll or forget), and that
\* fetch is the one the cache holds for the resource; fetches issued before
\* an invalidation may be outstanding beside it.
C2_AtMostOneFetchSinceInvalidation ==
    \A r \in URIs :
        LET current == {id \in OutstandingFor(r) : ~outstanding[id].evicted}
        IN  /\ Cardinality(current) <= 1
            /\ \A id \in current :
                   /\ r \in DOMAIN documentSettings
                   /\ documentSettings[r] = Pending(id)

\* Two fetches for one resource are outstanding: one evicted by an
\* invalidation, one held by the cache.
C2_Witness ==
    \E r \in URIs :
        /\ Cardinality(OutstandingFor(r)) = 2
        /\ \E id \in OutstandingFor(r) : outstanding[id].evicted
        /\ \E id \in OutstandingFor(r) : ~outstanding[id].evicted

\* C3: with the configuration capability, a get(r) issues a fetch exactly
\* when the cache holds no entry for r at the call (the configuration-change
\* handler has cleared the cache before its calls), it issues one fetch then,
\* the cache holds the promise for r after the step, and the pass receives
\* the promise the cache holds; a get(r) that finds an entry leaves the cache
\* and the outstanding fetches as they were.
C3_FetchExactlyOnMiss ==
    [][hasConfigurationCapability =>
        \A i \in StartedPasses :
            LET pass == passes'[i]
                r == pass.uri
                entryAtCall == /\ last'.op # "configuration"
                               /\ r \in DOMAIN documentSettings
                issued == {id \in DOMAIN outstanding' \ DOMAIN outstanding :
                              outstanding'[id].scopeUri = r}
            IN  /\ Cardinality(issued) = (IF entryAtCall THEN 0 ELSE 1)
                /\ (r \in last'.fetched) = ~entryAtCall
                /\ r \in DOMAIN documentSettings'
                /\ documentSettings'[r] = pass.awaits
                /\ ~entryAtCall => /\ issued = {pass.awaits.id}
                                   /\ pass.awaits.state = "pending"
                /\ entryAtCall => /\ documentSettings' = documentSettings
                                  /\ outstanding' = outstanding
    ]_vars

\* Two passes are suspended on the one fetch for their resource.
C3_Witness ==
    /\ hasConfigurationCapability
    /\ last.op = "change"
    /\ last.fetched = {}
    /\ \E i, j \in 1..Len(passes) :
           /\ i < j
           /\ passes[i].uri = passes[j].uri
           /\ passes[i].awaits = passes[j].awaits
           /\ passes[i].awaits.state = "pending"

\* C4: closing r removes the cache entry of r and leaves the entries of the
\* other resources and the global settings as they were; with the
\* configuration capability, the validation started by reopening r issues a
\* new fetch and is suspended on its promise.
C4_CloseForgetsReopenFetches ==
    [][\A r \in URIs :
          /\ (r \in OpenUris /\ r \notin OpenUris') =>
                 /\ r \notin DOMAIN documentSettings'
                 /\ DOMAIN documentSettings' = DOMAIN documentSettings \ {r}
                 /\ \A q \in DOMAIN documentSettings' :
                        documentSettings'[q] = documentSettings[q]
                 /\ globalSettings' = globalSettings
          /\ (r \notin OpenUris /\ r \in OpenUris'
                  /\ hasConfigurationCapability) =>
                 /\ r \notin DOMAIN documentSettings
                 /\ \E i \in StartedPasses :
                        /\ StartedPasses = {i}
                        /\ passes'[i].uri = r
                        /\ passes'[i].awaits = Pending(passes'[i].n)
                        /\ passes'[i].n \notin DOMAIN outstanding
                        /\ passes'[i].n \in DOMAIN outstanding'
                        /\ documentSettings'[r] = passes'[i].awaits
    ]_vars

\* A resource has been closed while a pass was suspended on its fetch, and
\* has been reopened: the cache holds a newer fetch than that pass awaits.
C4_Witness ==
    /\ hasConfigurationCapability
    /\ last.op = "open"
    /\ last.fetched = {last.uri}
    /\ \E i \in 1..Len(passes) :
           /\ passes[i].uri = last.uri
           /\ ~passes[i].live
           /\ passes[i].awaits.id < documentSettings[last.uri].id

\* C5: when the fetch a pass awaits is rejected, the pass ends without a
\* publishDiagnostics notification and the set last published for every
\* resource stays as it was.
C5_RejectedPassPublishesNothing ==
    [][(MicrotaskPending /\ passes[FirstRunnable].awaits.state = "rejected") =>
          /\ published' = published
          /\ nPublished' = nPublished
          /\ passes' = RemoveAt(passes, FirstRunnable)
          /\ last'.op = "failed"
    ]_vars

\* A pass has failed for a resource that has diagnostics published.
C5_Witness ==
    /\ last.op = "failed"
    /\ last.uri \in DOMAIN published
    /\ published[last.uri].diagnostics # <<>>

\* The matches of the pattern in text at or after lastIndex, in scan order.
RECURSIVE MatchesFrom(_, _)
MatchesFrom(text, lastIndex) ==
    LET m == PatternExec(text, lastIndex)
    IN  IF m.length = 0 THEN <<>>
        ELSE <<m>> \o MatchesFrom(text, m.index + m.length)

Min(a, b) == IF a <= b THEN a ELSE b

\* C6: a pass that publishes under a limit L >= 0 sends the diagnostics of
\* the first min(L, n) of the n matches of its text, in scan order, each a
\* warning with the message "<token> is all uppercase."; under L = 1 the text
\* "NOP\nABSA BADOPCODE\n" gives the one diagnostic for NOP, and under L = 0
\* the published set is empty.
C6_FirstMatchesInScanOrder ==
    last.op = "publish" =>
        LET ms == MatchesFrom(last.text, 0)
            L == last.settings.maxNumberOfProblems
            ds == last.diagnostics
        IN  /\ Len(ds) = Min(L, Len(ms))
            /\ \A k \in 1..Len(ds) :
                   /\ ds[k].severity = Warning
                   /\ ds[k].message =
                          JoinStr(Substring(last.text, ms[k].index,
                                            ms[k].length))
                          \o " is all uppercase."
                   /\ ds[k].range.start = positionAt(last.text, ms[k].index)
                   /\ ds[k].range.end =
                          positionAt(last.text, ms[k].index + ms[k].length)
            /\ (last.text = NopText /\ L = 1) =>
                   /\ Len(ds) = 1
                   /\ ds[1].message = "NOP is all uppercase."
                   /\ ds[1].range = [start |-> [line |-> 0, character |-> 0],
                                     end |-> [line |-> 0, character |-> 3]]
            /\ (last.text = NopText /\ L = DefaultMaxNumberOfProblems) =>
                   [k \in 1..Len(ds) |-> ds[k].message] =
                       <<"NOP is all uppercase.", "ABSA is all uppercase.",
                         "BADOPCODE is all uppercase.">>
            /\ L = 0 => ds = <<>>

\* A pass has published the three diagnostics of "NOP\nABSA BADOPCODE\n".
C6_Witness ==
    /\ last.op = "publish"
    /\ last.text = NopText
    /\ Len(last.diagnostics) = 3
    /\ last.diagnostics[3].message = "BADOPCODE is all uppercase."

\* C7: with the configuration capability a configuration change removes
\* every entry the cache held (the entries the cache holds after the step
\* belong to fetches the step's revalidation issued) and leaves the global
\* settings; without it, the change replaces the global settings by the
\* payload's fv1LanguageServer section, or by the default when the payload
\* has none, and leaves the cache.
C7_ConfigurationChangeEffect ==
    [][last'.op = "configuration" =>
          IF hasConfigurationCapability
          THEN /\ globalSettings' = globalSettings
               /\ \A r \in DOMAIN documentSettings' :
                      /\ documentSettings'[r].id > nStarted
                      /\ documentSettings'[r].state = "pending"
               /\ DOMAIN documentSettings' = OpenUris
          ELSE /\ documentSettings' = documentSettings
               /\ globalSettings' =
                      IF Has(last'.settings, "fv1LanguageServer")
                      THEN last'.settings.fv1LanguageServer
                      ELSE defaultSettings
    ]_vars

\* A configuration change has removed a settled entry: the cache holds a
\* newer fetch for a resource than the one a published set came from.
C7_Witness ==
    /\ hasConfigurationCapability
    /\ last.op = "configuration"
    /\ \E r \in last.fetched :
           /\ r \in DOMAIN published
           /\ documentSettings[r].state = "pending"

\* The labels of the instruction catalog, in the order of declaration.
CatalogLabels ==
    <<"EQU", "MEM", "RDA", "RMPA", "WRA", "WRAP", "RDAX", "RDFX", "WRAX",
      "WRHX", "WRLX", "MAXX", "ABSA", "MULX", "LOG", "EXP", "SOF", "AND",
      "OR", "XOR", "SKP", "WLDS", "WLDR", "JAM", "CHO", "NOP", "NOT", "CLR">>

\* C8: every completion request, for every document and position and after
\* any events, is answered with the proposals of the catalog in the order of
\* declaration.
C8_CompletionIsTheCatalog ==
    last.op = "completion" =>
        [k \in 1..Len(last.result) |-> last.result[k].label] = CatalogLabels

\* A completion request away from the start of a line has been answered
\* after a document was validated and closed.
C8_Witness ==
    /\ last.op = "completion"
    /\ last.params.position.character = 9
    /\ last.params.uri \in DOMAIN published
    /\ last.params.uri \notin OpenUris

\* C9: resolving the result of a resolve returns it unchanged.
C9_ResolveIdempotent ==
    last.op = "completionResolve" =>
        /\ onCompletionResolve(last.result) = last.result
        /\ last.again => last.result = last.item

\* A resolved item with a recognised key and a detail of its own has been
\* resolved again.
C9_Witness ==
    /\ last.op = "completionResolve"
    /\ last.again
    /\ Has(last.item, "data")
    /\ last.item.data = 2
    /\ last.item.detail = "JavaScript details"

\* C10: a pass that publishes for a resource whose previous published set
\* came from the same text and the same settings publishes the same set.
C10_RepublishIsIdentical ==
    [][nPublished' = nPublished + 1 =>
          LET u == last'.uri
          IN  (/\ u \in DOMAIN published
               /\ published[u].text = last'.text
               /\ published[u].settings = last'.settings) =>
                  /\ last'.diagnostics = published[u].diagnostics
                  /\ published'[u].diagnostics = published[u].diagnostics
    ]_vars

\* A pass has published a non-empty set again from the same text and
\* settings.
C10_Witness ==
    /\ last.op = "publish"
    /\ last.repeat
    /\ last.diagnostics # <<>>

\* The field at the end of path is present in the descriptor, with every
\* section on the way to it, and holds true.
RECURSIVE Supported(_, _)
Supported(descriptor, path) ==
    IF path = <<>> THEN descriptor
    ELSE /\ Head(path) \in DOMAIN descriptor
         /\ Supported(descriptor[Head(path)], Tail(path))

\* C11: the initialize request sets each of the three capability flags to
\* true exactly when its field of the client's descriptor is present and
\* true, and to false when the field or a section that encloses it is
\* absent; once the session is initialised no step changes a flag.
C11_FlagsSetOnceAtInitialize ==
    [][/\ last'.op = "initialize" =>
              /\ ~initialized /\ initialized'
              /\ hasConfigurationCapability' =
                     Supported(last'.capabilities,
                               <<"workspace", "configuration">>)
              /\ hasWorkspaceFolderCapability' =
                     Supported(last'.capabilities,
                               <<"workspace", "workspaceFolders">>)
              /\ hasDiagnosticRelatedInformationCapability' =
                     Supported(last'.capabilities,
                               <<"textDocument", "publishDiagnostics",
                                 "relatedInformation">>)
       /\ last'.op # "initialize" =>
              /\ initialized
              /\ UNCHANGED capabilityVars
    ]_vars

\* A session initialised by a descriptor whose workspace section holds a
\* false configuration field and no textDocument section has published
\* diagnostics and resolved a completion item: only the workspace-folder
\* flag is set.
C11_Witness ==
    /\ last.op = "completionResolve"
    /\ nPublished > 0
    /\ ~hasConfigurationCapability
    /\ hasWorkspaceFolderCapability
    /\ ~hasDiagnosticRelatedInformationCapability

\* The numbers of the passes suspended in the sequence ps.
PassNumbers(ps) == {ps[i].n : i \in 1..Len(ps)}

\* C12: an open and a change notification start one validation pass, for
\* their document; a configuration change starts one pass for each open
\* document; a suspended pass leaves only by resuming, and a pass that
\* resumes on resolved settings publishes once; so when every fetch issued
\* is answered (no fetch stays outstanding for ever) and none is rejected,
\* the publishDiagnostics notifications sent come to equal the passes
\* started.
C12_EveryPassPublishes ==
    /\ [][LET started == {passes'[i] : i \in StartedPasses}
              ended == PassNumbers(passes) \ PassNumbers(passes')
          IN  /\ Cardinality(StartedPasses) = nStarted' - nStarted
              /\ last'.op \in {"open", "change"} =>
                     /\ nStarted' = nStarted + 1
                     /\ \A pass \in started : pass.uri = last'.uri
              /\ last'.op = "configuration" =>
                     /\ nStarted' = nStarted + Len(documents)
                     /\ \A r \in OpenUris :
                            Cardinality({pass \in started : pass.uri = r}) = 1
              /\ last'.op \notin {"open", "change", "configuration"} =>
                     nStarted' = nStarted
              /\ IF last'.op \in {"publish", "failed"}
                 THEN ended = {last'.n}
                 ELSE ended = {}
              /\ nPublished' =
                     nPublished + (IF last'.op = "publish" THEN 1 ELSE 0)
         ]_vars
    /\ (<>[](outstanding = EmptyMap) /\ [](last.op # "rejected"))
           => <>[](nPublished = nStarted)

\* A configuration change has started a pass for each of two open
\* documents, with a fetch for each, beside a pass suspended since before.
C12_Witness ==
    /\ hasConfigurationCapability
    /\ last.op = "configuration"
    /\ last.fetched = URIs
    /\ Len(passes) = 3

\* C13: passes of one document can publish out of the order in which they
\* started (C13_Witness is such an execution: a pass started by a content
\* change publishes while a pass started earlier for the same document is
\* still suspended, and that earlier pass publishes after it).  Whenever a
\* pass publishes before an earlier pass of its document, the earlier pass
\* awaits an older fetch that is still pending: passes that await the same
\* promise resume in the order in which they started.
C13_OvertakenPassAwaitsOlderFetch ==
    last.op = "publish" =>
        \A i \in 1..Len(passes) :
            (passes[i].uri = last.uri /\ passes[i].n < last.n) =>
                /\ passes[i].awaits.state = "pending"
                /\ passes[i].awaits.id < last.id

\* A pass started by a content change (it awaits a fetch that an earlier
\* pass issued) has published while a pass that started before it for the
\* same document, still open, is suspended.
C13_Witness ==
    /\ hasConfigurationCapability
    /\ last.op = "publish"
    /\ last.id # last.n
    /\ \E i \in 1..Len(passes) :
           /\ passes[i].uri = last.uri
           /\ passes[i].n < last.n
           /\ passes[i].live

\* C14: a fetch of one document that the editor never answers stalls the
\* passes that await it and nothing else: the server comes back, again and
\* again, to the state in which it takes the next message with no pass of
\* the other document suspended (the editor answers that document's
\* fetches), and a pass of that document leaves only by publishing or, its
\* fetch rejected, by failing.
C14_StalledFetchStallsOnlyItsPasses ==
    /\ [][\A i \in 1..Len(passes) :
            (/\ passes[i].uri = AnsweredUri
             /\ passes[i].n \notin PassNumbers(passes')) =>
                /\ last'.n = passes[i].n
                /\ \/ last'.op = "publish"
                   \/ /\ last'.op = "failed"
                      /\ passes[i].awaits.state = "rejected"
         ]_vars
    /\ []<>(\/ ~initialized
            \/ /\ Idle
               /\ \A i \in 1..Len(passes) : passes[i].uri # AnsweredUri)

\* A pass of the answered document has published while an earlier pass of
\* the other document is suspended on a fetch that is still outstanding.
C14_Witness ==
    /\ last.op = "publish"
    /\ last.uri = AnsweredUri
    /\ \E i \in 1..Len(passes) :
           /\ passes[i].uri = StalledUri
           /\ passes[i].n < last.n
           /\ passes[i].awaits.state = "pending"
           /\ passes[i].awaits.id \in DOMAIN outstanding

\* C15: every diagnostic published carries related-information entries
\* exactly when the related-information capability was negotiated; each
\* entry's location then has the uri of the validated document and the range
\* of the diagnostic.
C15_RelatedInformationIffCapability ==
    \A u \in DOMAIN published :
        \A k \in 1..Len(published[u].diagnostics) :
            LET d == published[u].diagnostics[k]
            IN  /\ Has(d, "relatedInformation") =
                       hasDiagnosticRelatedInformationCapability
                /\ Has(d, "relatedInformation") =>
                       /\ d.relatedInformation # <<>>
                       /\ \A e \in 1..Len(d.relatedInformation) :
                              /\ d.relatedInformation[e].location.uri = u
                              /\ d.relatedInformation[e].location.range =
                                     d.range

\* For a client with the related-information capability and without the
\* configuration capability, a pass has published three diagnostics with
\* their related information.
C15_Witness ==
    /\ hasDiagnosticRelatedInformationCapability
    /\ ~hasConfigurationCapability
    /\ last.op = "publish"
    /\ Len(last.diagnostics) = 3
    /\ Len(last.diagnostics[3].relatedInformation) = 2

\* C16: without the configuration capability a get returns a promise
\* resolved with the current global settings, issues no fetch and adds no
\* cache entry: the cache is empty and no fetch is outstanding in every
\* state, no step issues a fetch, every suspended pass holds the current
\* global settings, and every pass publishes under them.
C16_GlobalModeNeverFetches ==
    ~hasConfigurationCapability =>
        /\ documentSettings = EmptyMap
        /\ outstanding = EmptyMap
        /\ \A i \in 1..Len(passes) :
               passes[i].awaits = Resolved(0, globalSettings)
        /\ last.op \in {"open", "change", "configuration"} =>
               last.fetched = {}
        /\ last.op \notin {"resolved", "rejected", "failed"}
        /\ last.op = "publish" =>
               /\ last.id = 0
               /\ last.settings = globalSettings

\* Without the configuration capability, a pass has published under the
\* limit 1 that a configuration change has set as the global settings.
C16_Witness ==
    /\ ~hasConfigurationCapability
    /\ last.op = "publish"
    /\ globalSettings = [maxNumberOfProblems |-> 1]
    /\ last.settings = globalSettings
    /\ Len(last.diagnostics) = 1

\* C17: resolve returns an item unchanged, field for field, when the item
\* has no resolution key or a key that is not one of the two recognised;
\* no item of a completion answer has a key, so resolve returns each of them
\* unchanged.
C17_UnrecognisedKeyUnchanged ==
    /\ (/\ last.op = "completionResolve"
        /\ (~Has(last.item, "data") \/ last.item.data \notin {1, 2})) =>
           last.result = last.item
    /\ last.op = "completion" =>
           \A k \in 1..Len(last.result) :
               /\ ~Has(last.result[k], "data")
               /\ onCompletionResolve(last.result[k]) = last.result[k]

\* An item with the key 3 has been resolved.
C17_Witness ==
    /\ last.op = "completionResolve"
    /\ Has(last.item, "data")
    /\ last.item.data = 3
    /\ last.result = [label |-> "Other", kind |-> "Text", data |-> 3]

\* C18: every uri with an entry in the settings cache is the uri of an open
\* document, in every state: also after a pass of a closed document has
\* resumed.
C18_CacheKeysAreOpenDocuments ==
    DOMAIN documentSettings \subseteq OpenUris

\* A pass of a document closed while its fetch was pending has resumed and
\* published: the cache holds an entry for the other document, which is
\* open, and none for the closed one.
C18_Witness ==
    /\ hasConfigurationCapability
    /\ last.op = "publish"
    /\ ~last.live
    /\ last.uri \notin OpenUris
    /\ last.uri \notin DOMAIN documentSettings
    /\ DOMAIN documentSettings # {}

\* C19: a pass whose document has stayed open since the pass started
\* publishes the diagnostics of the text the document holds when the pass
\* publishes, under the settings the pass awaited; the text the document
\* held when the pass started plays no part.
C19_PublishesCurrentText ==
    (last.op = "publish" /\ last.live) =>
        /\ last.uri \in OpenUris
        /\ last.text = getText(last.uri)
        /\ last.diagnostics =
               Diagnostics(getText(last.uri), last.uri, last.settings)
        /\ published[last.uri].diagnostics = last.diagnostics

\* A pass started on one text has published, for a document edited while
\* the pass was suspended, the first diagnostic of the text after the edit.
C19_Witness ==
    /\ last.op = "publish"
    /\ last.live
    /\ last.startText = MixedText
    /\ last.text = NopText
    /\ Len(last.diagnostics) = 1
    /\ last.diagnostics[1].message = "NOP is all uppercase."

\* C20: with the configuration capability, a rejected promise stays the
\* cache entry of r until a configuration change or the close of r: every
\* other step leaves the entry, a pass it starts for r is suspended on the
\* rejected promise with no fetch issued, and a pass that resumes on a
\* rejected promise ends without publishing; a configuration change replaces
\* the entry of r, still open, by a new fetch, the close of r removes it, and
\* an open, which never finds an entry, issues a new fetch.
C20_RejectedEntryStaysUntilInvalidated ==
    [][hasConfigurationCapability =>
          /\ \A r \in DOMAIN documentSettings :
                 documentSettings[r].state = "rejected" =>
                     IF last'.op = "configuration"
                     THEN /\ r \in last'.fetched
                          /\ documentSettings'[r].state = "pending"
                          /\ documentSettings'[r].id > nStarted
                          /\ documentSettings'[r].id \in DOMAIN outstanding'
                     ELSE IF last'.op = "close" /\ last'.uri = r
                     THEN r \notin DOMAIN documentSettings'
                     ELSE /\ r \in DOMAIN documentSettings'
                          /\ documentSettings'[r] = documentSettings[r]
                          /\ \A i \in StartedPasses :
                                 passes'[i].uri = r =>
                                     /\ passes'[i].awaits = documentSettings[r]
                                     /\ last'.fetched = {}
                                     /\ outstanding' = outstanding
          /\ (/\ MicrotaskPending
              /\ passes[FirstRunnable].awaits.state = "rejected") =>
                 /\ last'.op = "failed"
                 /\ last'.n = passes[FirstRunnable].n
                 /\ UNCHANGED <<published, nPublished>>
          /\ last'.op = "open" =>
                 /\ last'.uri \notin DOMAIN documentSettings
                 /\ last'.fetched = {last'.uri}
    ]_vars

\* A content change has started a pass for a document whose cache entry is
\* a rejected promise: no fetch was issued and the pass holds the rejected
\* promise.
C20_Witness ==
    /\ hasConfigurationCapability
    /\ last.op = "change"
    /\ last.fetched = {}
    /\ documentSettings[last.uri].state = "rejected"
    /\ \E i \in 1..Len(passes) :
           /\ passes[i].uri = last.uri
           /\ passes[i].awaits = documentSettings[last.uri]

====
